---- MODULE Spec2Model ----
(***************************************************************************)
(* libbluedevil: the Device property cache (bluedevildevice.cpp) and the   *)
(* Manager singleton (bluedevilmanager.h), together with the part of the   *)
(* BlueZ daemon the two talk to over D-Bus.                                *)
(*                                                                         *)
(* Every public method of Device is synchronous: its D-Bus calls block     *)
(* (.value(), waitForFinished()), and queued PropertyChanged signals are   *)
(* only dispatched once control is back in the event loop.  One action     *)
(* therefore models one whole method, or one signal dispatch, or one       *)
(* change inside the daemon.                                               *)
(***************************************************************************)
EXTENDS Naturals, Sequences, FiniteSets, TLC

\* ------------------------------------------------------------------ bounds
\* Events inside the daemon that concern the device: a property taking a new
\* value (on its own or through SetProperty) or a disconnect request.
MaxChanges == 2
\* QObjects (Manager instances, Adapters, Devices) constructed over a run.
MaxObjects == 4

\* ------------------------------------------------------------------ values
Aliases == {"kbd", "desk"}
DevicePath == "/org/bluez/hci0/dev_00"
EmptyPath == ""
BoolProperties == {"Paired", "Connected", "Trusted", "Blocked"}

\* QVariant / QDBusVariant: a tagged value.
VBool(b) == [t |-> "bool", v |-> b]
VString(s) == [t |-> "string", v |-> s]
VList(l) == [t |-> "list", v |-> l]
VInvalid == [t |-> "invalid"]

\* QVariant::toBool(): a bool is itself; a string is true unless it is empty,
\* "0" or "false"; an invalid variant or a list is false.
toBool(x) ==
    CASE x.t = "bool" -> x.v
      [] x.t = "string" -> x.v \notin {"", "0", "false"}
      [] OTHER -> FALSE

\* QVariant::toString(): a string is itself, a bool is "true"/"false",
\* an invalid variant or a list is the empty string.
toString(x) ==
    CASE x.t = "string" -> x.v
      [] x.t = "bool" -> (IF x.v THEN "true" ELSE "false")
      [] OTHER -> ""

\* QVariant::toList(): a list is itself, anything else the empty list.
toList(x) == IF x.t = "list" THEN x.v ELSE <<>>

VARIABLES
    d,          \* Device::Private: the interface pointer and the cached properties
    conn,       \* signal connections made on the interface, per daemon signal
    hist,       \* history: interfaces constructed, GetProperties completed
    bluez,      \* the daemon's device object
    pending,    \* signals the bus has queued for the Device, oldest first
    changes,    \* number of daemon events so far
    last,       \* the step just taken: operation, remote calls, signals, result
    mgr,        \* Manager singleton and the objects it owns
    mlast       \* the Manager step just taken

dvars == <<d, conn, hist, bluez, pending, changes, last>>
vars == <<d, conn, hist, bluez, pending, changes, last, mgr, mlast>>

\* ------------------------------------------------------------ Device::Private
Null == 0
Address == "00:11:22:33:44:55"

\* Device::Private::Private: the constructor's initialiser list.
Private(address, alias, paired) ==
    [m_bluezDeviceInterface |-> Null,
     m_address |-> address,
     m_UUIDs |-> <<>>,
     m_paired |-> paired,
     m_connected |-> FALSE,
     m_trusted |-> FALSE,
     m_blocked |-> FALSE,
     m_alias |-> alias,
     m_propertiesFetched |-> FALSE]

\* A remote call as issued on the bus, with the reply it got.
Call(m, a, r) == [method |-> m, arg |-> a, reply |-> r]
\* A Qt signal emitted by the Device.
Signal(s, a) == [signal |-> s, arg |-> a]
\* A daemon signal queued for the Device.
PropertyChanged(property, value) ==
    [signal |-> "PropertyChanged", property |-> property, value |-> value]
DisconnectRequested ==
    [signal |-> "DisconnectRequested", property |-> "", value |-> VInvalid]

\* The state one method reads and writes, and the calls it has issued so far.
World ==
    [d |-> d, conn |-> conn, hist |-> hist, bluez |-> bluez,
     pending |-> pending, changes |-> changes, calls |-> <<>>]

\* m_adapter->findDevice(m_address): the daemon's object path of the device, or
\* the empty path when the daemon has no such device or the call fails.
findDevice(bz, ok) == IF bz.known /\ ok THEN DevicePath ELSE EmptyPath

\* m_adapter->createDevice(m_address): the daemon creates the device object and
\* answers its path; the empty path when it exists already or cannot be created.
createDevice(bz, ok) == IF ~bz.known /\ ok THEN DevicePath ELSE EmptyPath

\* A guard that always runs the creation branch.
interfaceAlwaysMissing(dd) == TRUE

\* if (!m_bluezDeviceInterface)
interfaceMissing(dd) == dd.m_bluezDeviceInterface = Null

\* A path check that lets the empty path through.
pathNeverEmpty(devicePath) == FALSE

\* if (devicePath.path().isEmpty()) return false;
pathEmpty(devicePath) == devicePath = EmptyPath

\* new OrgBluezDeviceInterface(...) and the two connect() calls.
newInterface(w) ==
    [w EXCEPT !.d.m_bluezDeviceInterface = w.hist.created + 1,
              !.hist.created = @ + 1,
              !.conn.DisconnectRequested = @ + 1,
              !.conn.PropertyChanged = @ + 1]

\* Device::Private::ensureDeviceCreated: [ok, w].
ensureDeviceCreated(w, findOk, createOk) ==
    IF interfaceMissing(w.d)
    THEN LET found == findDevice(w.bluez, findOk)
             w1 == [w EXCEPT !.calls = Append(@, Call("findDevice", w.d.m_address, found))]
             made == createDevice(w1.bluez, createOk)
             w2 == IF found = EmptyPath
                   THEN [w1 EXCEPT !.calls = Append(@, Call("createDevice", w.d.m_address, made)),
                                   !.bluez.known = @ \/ made # EmptyPath]
                   ELSE w1
             devicePath == IF found = EmptyPath THEN made ELSE found
         IN  IF pathEmpty(devicePath)
             THEN [ok |-> FALSE, w |-> w2]
             ELSE [ok |-> TRUE, w |-> newInterface(w2)]
    ELSE [ok |-> TRUE, w |-> w]

\* The reply of GetProperties: the daemon's property table, or (an error reply's
\* .value()) the empty map, every lookup in which is an invalid variant.  A
\* device object the daemon has removed answers every call with an error.
PropertyNames == BoolProperties \cup {"Alias", "UUIDs"}
EmptyProperties == [n \in PropertyNames |-> VInvalid]
VStringList(l) == VList([i \in 1..Len(l) |-> VString(l[i])])
GetProperties(bz, ok) ==
    IF ok /\ bz.known
    THEN [n \in PropertyNames |->
            CASE n \in BoolProperties -> VBool(bz[n])
              [] n = "Alias" -> VString(bz[n])
              [] OTHER -> VStringList(bz[n])]
    ELSE EmptyProperties

\* Q_FOREACH (const QVariant &UUID, UUIDs) m_UUIDs << UUID.toString();
appendUUIDs(uuids, l) == uuids \o [i \in 1..Len(l) |-> toString(l[i])]

\* A fetchProperties that reads Trusted from the Blocked entry.
fetchPropertiesMixedUp(w, findOk, createOk, getOk) ==
    LET e == ensureDeviceCreated(w, findOk, createOk) IN
    IF ~e.ok
    THEN e.w
    ELSE LET properties == GetProperties(e.w.bluez, getOk) IN
         [e.w EXCEPT
            !.calls = Append(@, Call("GetProperties", "",
                                     IF properties = EmptyProperties THEN "error" ELSE "ok")),
            !.hist.getProperties = @ + 1,
            !.hist.fetchError = (properties = EmptyProperties),
            !.d.m_connected = toBool(properties["Connected"]),
            !.d.m_trusted = toBool(properties["Blocked"]),
            !.d.m_blocked = toBool(properties["Blocked"]),
            !.d.m_UUIDs = appendUUIDs(@, toList(properties["UUIDs"])),
            !.d.m_propertiesFetched = TRUE]

\* Device::Private::fetchProperties.
fetchProperties(w, findOk, createOk, getOk) ==
    LET e == ensureDeviceCreated(w, findOk, createOk) IN
    IF ~e.ok
    THEN e.w
    ELSE LET properties == GetProperties(e.w.bluez, getOk) IN
         [e.w EXCEPT
            !.calls = Append(@, Call("GetProperties", "",
                                     IF properties = EmptyProperties THEN "error" ELSE "ok")),
            !.hist.getProperties = @ + 1,
            !.hist.fetchError = (properties = EmptyProperties),
            !.d.m_connected = toBool(properties["Connected"]),
            !.d.m_trusted = toBool(properties["Trusted"]),
            !.d.m_blocked = toBool(properties["Blocked"]),
            !.d.m_UUIDs = appendUUIDs(@, toList(properties["UUIDs"])),
            !.d.m_propertiesFetched = TRUE]

\* A getter prologue that fetches on every call.
ALWAYS_FETCH(w, findOk, createOk, getOk) == fetchProperties(w, findOk, createOk, getOk)

\* ENSURE_PROPERTIES_FETCHED
ENSURE_PROPERTIES_FETCHED(w, findOk, createOk, getOk) ==
    IF ~w.d.m_propertiesFetched
    THEN fetchProperties(w, findOk, createOk, getOk)
    ELSE w

\* A slot that stays silent when the notified value is the cached one.
propertyChangedIfNew(dd, property, value) ==
    CASE property = "Paired" ->
            [d |-> [dd EXCEPT !.m_paired = toBool(value)],
             emitted |-> IF dd.m_paired = toBool(value) THEN <<>>
                         ELSE <<Signal("pairedChanged", toBool(value))>>]
      [] property = "Connected" ->
            [d |-> [dd EXCEPT !.m_connected = toBool(value)],
             emitted |-> IF dd.m_connected = toBool(value) THEN <<>>
                         ELSE <<Signal("connectedChanged", toBool(value))>>]
      [] property = "Trusted" ->
            [d |-> [dd EXCEPT !.m_trusted = toBool(value)],
             emitted |-> IF dd.m_trusted = toBool(value) THEN <<>>
                         ELSE <<Signal("trustedChanged", toBool(value))>>]
      [] property = "Blocked" ->
            [d |-> [dd EXCEPT !.m_blocked = toBool(value)],
             emitted |-> IF dd.m_blocked = toBool(value) THEN <<>>
                         ELSE <<Signal("blockedChanged", toBool(value))>>]
      [] property = "Alias" ->
            [d |-> [dd EXCEPT !.m_alias = toString(value)],
             emitted |-> IF dd.m_alias = toString(value) THEN <<>>
                         ELSE <<Signal("aliasChanged", toString(value))>>]
      [] OTHER -> [d |-> dd, emitted |-> <<>>]

\* Device::Private::_k_propertyChanged: [d, emitted].
_k_propertyChanged(dd, property, value) ==
    CASE property = "Paired" ->
            [d |-> [dd EXCEPT !.m_paired = toBool(value)],
             emitted |-> <<Signal("pairedChanged", toBool(value))>>]
      [] property = "Connected" ->
            [d |-> [dd EXCEPT !.m_connected = toBool(value)],
             emitted |-> <<Signal("connectedChanged", toBool(value))>>]
      [] property = "Trusted" ->
            [d |-> [dd EXCEPT !.m_trusted = toBool(value)],
             emitted |-> <<Signal("trustedChanged", toBool(value))>>]
      [] property = "Blocked" ->
            [d |-> [dd EXCEPT !.m_blocked = toBool(value)],
             emitted |-> <<Signal("blockedChanged", toBool(value))>>]
      [] property = "Alias" ->
            [d |-> [dd EXCEPT !.m_alias = toString(value)],
             emitted |-> <<Signal("aliasChanged", toString(value))>>]
      [] OTHER -> [d |-> dd, emitted |-> <<>>]

\* Qt invokes a slot once per connection made to the signal.
RECURSIVE invokeSlot(_, _, _)
invokeSlot(r, n, k) ==
    IF k = 0
    THEN r
    ELSE LET h == _k_propertyChanged(r.d, n.property, n.value) IN
         invokeSlot([d |-> h.d, emitted |-> r.emitted \o h.emitted], n, k - 1)

\* A signal-to-signal connection re-emits once per connection.
RECURSIVE reemit(_, _)
reemit(s, k) == IF k = 0 THEN <<>> ELSE <<s>> \o reemit(s, k - 1)

\* The pure getters.
isPaired(dd) == dd.m_paired
alias(dd) == dd.m_alias
isConnected(dd) == dd.m_connected
isTrusted(dd) == dd.m_trusted
isBlocked(dd) == dd.m_blocked
UUIDs(dd) == dd.m_UUIDs

\* ------------------------------------------------------------------ daemon
UUIDLists == {<<"u1">>, <<"u1", "u2">>}
ServiceRecords == {<<"0x10001", "<record/>">>}
EmptyMap == {}

\* The daemon's value of a property as the variant it sends on the bus.
Variant(name, v) ==
    CASE name \in BoolProperties -> VBool(v)
      [] name = "Alias" -> VString(v)
      [] OTHER -> VStringList(v)

PropertyValues(name) ==
    CASE name \in BoolProperties -> BOOLEAN
      [] name = "Alias" -> Aliases
      [] OTHER -> UUIDLists

\* org.bluez.Device emits PropertyChanged when a property takes a new value; the
\* bus delivers it to the Device once its interface is connected to the signal.
announce(w, name, v) ==
    IF w.conn.PropertyChanged > 0
    THEN [w EXCEPT !.pending = Append(@, PropertyChanged(name, Variant(name, v)))]
    ELSE w

\* org.bluez.Device.SetProperty as the daemon serves it: on success the property
\* takes the value, announced when it differs from the old one.  The caller
\* waits for the reply and drops it.
SetProperty(w, name, v, ok) ==
    LET w1 == [w EXCEPT !.calls = Append(@, Call("SetProperty", <<name, Variant(name, v)>>,
                                                 "dropped"))]
    IN  IF ok /\ w.bluez.known /\ w.bluez[name] # v
        THEN announce([w1 EXCEPT !.bluez[name] = v, !.changes = @ + 1], name, v)
        ELSE w1

\* The daemon without an object for the device: what createDevice starts from.
NoDevice ==
    [known |-> FALSE, Paired |-> FALSE, Connected |-> FALSE, Trusted |-> FALSE,
     Blocked |-> FALSE, Alias |-> "kbd", UUIDs |-> <<"u1">>]

\* ------------------------------------------------------------------ steps
Step(op, calls, emitted, ret, handled) ==
    [op |-> op, calls |-> calls, emitted |-> emitted, ret |-> ret, handled |-> handled]

\* A method returns: its effects and what the caller saw.
Return(w, op, ret) ==
    /\ w.changes <= MaxChanges
    /\ d' = w.d
    /\ conn' = w.conn
    /\ hist' = w.hist
    /\ bluez' = w.bluez
    /\ pending' = w.pending
    /\ changes' = w.changes
    /\ last' = Step(op, w.calls, <<>>, ret, 0)
    /\ UNCHANGED <<mgr, mlast>>

InitDevice ==
    /\ \E known \in BOOLEAN, paired \in BOOLEAN :
          /\ ~known => ~paired
          /\ d = Private(Address, "kbd", paired)
          /\ bluez = [NoDevice EXCEPT !.known = known, !.Paired = paired]
    /\ conn = [PropertyChanged |-> 0, DisconnectRequested |-> 0]
    /\ hist = [created |-> 0, getProperties |-> 0, fetchError |-> FALSE, removed |-> FALSE]
    /\ pending = <<>>
    /\ changes = 0
    /\ last = Step("Device", <<>>, <<>>, "void", 0)

\* The replies a remote call can get: success or an error, when it is issued.
Replies(issued) == IF issued THEN BOOLEAN ELSE {TRUE}
FindReplies == Replies(interfaceMissing(d))
CreateReplies == Replies(interfaceMissing(d) /\ ~bluez.known)

\* Device::registerDevice
registerDevice ==
    \E findOk \in FindReplies, createOk \in CreateReplies :
        LET e == ensureDeviceCreated(World, findOk, createOk) IN
        Return(e.w, "registerDevice", e.ok)

\* Device::UUIDs / isConnected / isTrusted / isBlocked
LazyGetters == {"UUIDs", "isConnected", "isTrusted", "isBlocked"}
getterValue(op, dd) ==
    CASE op = "UUIDs" -> UUIDs(dd)
      [] op = "isConnected" -> isConnected(dd)
      [] op = "isTrusted" -> isTrusted(dd)
      [] op = "isBlocked" -> isBlocked(dd)
      [] op = "isPaired" -> isPaired(dd)
      [] op = "alias" -> alias(dd)

lazyGetter ==
    \E op \in LazyGetters, findOk \in FindReplies, createOk \in CreateReplies,
       getOk \in Replies(~d.m_propertiesFetched) :
        LET w == ENSURE_PROPERTIES_FETCHED(World, findOk, createOk, getOk) IN
        Return(w, op, getterValue(op, w.d))

\* Device::isPaired / alias
PlainGetters == {"isPaired", "alias"}
plainGetter ==
    \E op \in PlainGetters : Return(World, op, getterValue(op, d))

\* A setTrusted that also writes the value into the cache.
setTrustedCaching(w, trusted, findOk, createOk, setOk) ==
    LET e == ensureDeviceCreated(w, findOk, createOk) IN
    IF ~e.ok
    THEN e.w
    ELSE SetProperty([e.w EXCEPT !.d.m_trusted = trusted], "Trusted", trusted, setOk)

\* Device::setTrusted
setTrusted(w, trusted, findOk, createOk, setOk) ==
    LET e == ensureDeviceCreated(w, findOk, createOk) IN
    IF ~e.ok
    THEN e.w
    ELSE SetProperty(e.w, "Trusted", trusted, setOk)

\* Device::setBlocked
setBlocked(w, blocked, findOk, createOk, setOk) ==
    LET e == ensureDeviceCreated(w, findOk, createOk) IN
    IF ~e.ok
    THEN e.w
    ELSE SetProperty(e.w, "Blocked", blocked, setOk)

\* Device::setAlias
setAlias(w, a, findOk, createOk, setOk) ==
    LET e == ensureDeviceCreated(w, findOk, createOk) IN
    IF ~e.ok
    THEN e.w
    ELSE SetProperty(e.w, "Alias", a, setOk)

Setters == {"setTrusted", "setBlocked", "setAlias"}

setter ==
    \E findOk \in FindReplies, createOk \in CreateReplies, setOk \in BOOLEAN :
        \/ \E trusted \in BOOLEAN :
              Return(setTrusted(World, trusted, findOk, createOk, setOk), "setTrusted", "void")
        \/ \E blocked \in BOOLEAN :
              Return(setBlocked(World, blocked, findOk, createOk, setOk), "setBlocked", "void")
        \/ \E a \in Aliases :
              Return(setAlias(World, a, findOk, createOk, setOk), "setAlias", "void")

\* Device::discoverServices
discoverServices ==
    \E findOk \in FindReplies, createOk \in CreateReplies, callOk \in BOOLEAN :
        LET e == ensureDeviceCreated(World, findOk, createOk) IN
        IF ~e.ok
        THEN Return(e.w, "discoverServices", EmptyMap)
        ELSE LET ok == callOk /\ e.w.bluez.known IN
             Return([e.w EXCEPT !.calls = Append(@, Call("DiscoverServices", "",
                                                         IF ok THEN "ok" ELSE "error"))],
                    "discoverServices",
                    IF ok THEN ServiceRecords ELSE EmptyMap)

\* Device::cancelDiscovery
cancelDiscovery ==
    IF d.m_bluezDeviceInterface # Null
    THEN Return([World EXCEPT !.calls = Append(@, Call("CancelDiscovery", "", "async"))],
                "cancelDiscovery", "void")
    ELSE Return(World, "cancelDiscovery", "void")

\* Device::disconnect: the daemon announces DisconnectRequested for a connected
\* device before it tears the link down.
disconnect ==
    IF d.m_bluezDeviceInterface # Null
    THEN LET w == [World EXCEPT !.calls = Append(@, Call("Disconnect", "", "async"))] IN
         Return(IF bluez.Connected /\ conn.DisconnectRequested > 0
                THEN [w EXCEPT !.pending = Append(@, DisconnectRequested),
                               !.changes = @ + 1]
                ELSE w,
                "disconnect", "void")
    ELSE Return(World, "disconnect", "void")

\* The event loop dispatches the oldest queued PropertyChanged to the slot.
dispatchPropertyChanged ==
    /\ pending # <<>>
    /\ Head(pending).signal = "PropertyChanged"
    /\ LET r == invokeSlot([d |-> d, emitted |-> <<>>], Head(pending), conn.PropertyChanged) IN
         /\ d' = r.d
         /\ last' = Step("_k_propertyChanged", <<>>, r.emitted, "void", conn.PropertyChanged)
    /\ pending' = Tail(pending)
    /\ UNCHANGED <<conn, hist, bluez, changes, mgr, mlast>>

\* The event loop dispatches a queued DisconnectRequested: re-emitted as is.
dispatchDisconnectRequested ==
    /\ pending # <<>>
    /\ Head(pending).signal = "DisconnectRequested"
    /\ last' = Step("disconnectRequested", <<>>,
                    reemit(Signal("disconnectRequested", "void"), conn.DisconnectRequested),
                    "void", conn.DisconnectRequested)
    /\ pending' = Tail(pending)
    /\ UNCHANGED <<d, conn, hist, bluez, changes, mgr, mlast>>

\* The daemon changes a property of the device on its own.
daemonChange ==
    \E name \in PropertyNames :
      \E v \in PropertyValues(name) :
        /\ bluez.known
        /\ changes < MaxChanges
        /\ bluez[name] # v
        /\ LET w == announce([World EXCEPT !.bluez[name] = v], name, v) IN
             /\ bluez' = w.bluez
             /\ pending' = w.pending
        /\ changes' = changes + 1
        /\ last' = Step("daemon", <<>>, <<>>, "void", 0)
        /\ UNCHANGED <<d, conn, hist, mgr, mlast>>

\* Another client has the daemon create the device object.
daemonCreate ==
    /\ ~bluez.known
    /\ bluez' = [bluez EXCEPT !.known = TRUE]
    /\ last' = Step("daemon", <<>>, <<>>, "void", 0)
    /\ UNCHANGED <<d, conn, hist, pending, changes, mgr, mlast>>

\* ------------------------------------------------------------------ Manager
AdapterPaths == {"/org/bluez/hci0", "/org/bluez/hci1"}

\* A Manager step: operation, signals emitted, result, ids of the objects deleted.
MStep(op, emitted, ret, deleted) ==
    [op |-> op, emitted |-> emitted, ret |-> ret, deleted |-> deleted]

\* A QObject as the object tree sees it.
QObject(id, kind, parent, path) == [id |-> id, kind |-> kind, parent |-> parent, path |-> path]

\* QObject::~QObject deletes the children: the ids of the tree under ids.
RECURSIVE Tree(_, _)
Tree(objs, ids) ==
    LET c == {o.id : o \in {x \in objs : x.parent \in ids}} IN
    IF c \subseteq ids THEN ids ELSE Tree(objs, ids \cup c)
deleteObject(objs, id) == {o \in objs : o.id \notin Tree(objs, {id})}

\* A Device constructed without a parent.
DeviceOrphan(m, adapter) ==
    [m EXCEPT !.objects = @ \cup {QObject(m.nextId, "Device", Null, "")},
              !.nextId = @ + 1]

\* Device::Device: QObject(adapter) makes the Device a child of its Adapter.
Device(m, adapter) ==
    [m EXCEPT !.objects = @ \cup {QObject(m.nextId, "Device", adapter, "")},
              !.nextId = @ + 1]

\* Manager::self(): the instance, constructed on the first call: [m, ret].
self(m) ==
    IF m.instance = Null
    THEN [m |-> [m EXCEPT !.instance = m.nextId, !.nextId = @ + 1], ret |-> m.nextId]
    ELSE [m |-> m, ret |-> m.instance]

\* Manager::release(): deletes the instance and with it every Adapter and Device.
release(m) ==
    IF m.instance = Null
    THEN m
    ELSE [m EXCEPT !.objects = deleteObject(@, m.instance),
                   !.instance = Null,
                   !.adapters = <<>>,
                   !.m_defaultAdapter = Null]

\* The Adapter the Manager holds for an object path, Null when it holds none.
adapterAt(m, path) ==
    LET found == {o.id : o \in {x \in m.objects : x.kind = "Adapter" /\ x.path = path}} IN
    IF found = {} THEN Null ELSE CHOOSE id \in found : TRUE

RECURSIVE without(_, _)
without(l, x) ==
    IF l = <<>> THEN <<>>
    ELSE IF Head(l) = x THEN without(Tail(l), x)
    ELSE <<Head(l)>> \o without(Tail(l), x)

\* _k_adapterAdded: a new Adapter, owned by the Manager: [m, emitted].
adapterAdded(m, path) ==
    [m |-> [m EXCEPT !.objects = @ \cup {QObject(m.nextId, "Adapter", m.instance, path)},
                     !.adapters = Append(@, m.nextId),
                     !.nextId = @ + 1],
     emitted |-> <<Signal("adapterAdded", m.nextId)>>]

\* An _k_adapterRemoved that announces allAdaptersRemoved on every removal.
adapterRemovedAlways(m, path) ==
    LET adapter == adapterAt(m, path)
        left == without(m.adapters, adapter)
    IN  [m |-> [m EXCEPT !.objects = deleteObject(@, adapter),
                         !.adapters = left,
                         !.m_defaultAdapter = IF @ = adapter THEN Null ELSE @],
         emitted |-> <<Signal("adapterRemoved", adapter),
                       Signal("defaultAdapterChanged", Null),
                       Signal("allAdaptersRemoved", Null)>>]

\* _k_adapterRemoved: the Adapter is announced as removed and deleted; the last
\* one gone, defaultAdapterChanged(0) and allAdaptersRemoved follow: [m, emitted].
adapterRemoved(m, path) ==
    LET adapter == adapterAt(m, path)
        left == without(m.adapters, adapter)
    IN  [m |-> [m EXCEPT !.objects = deleteObject(@, adapter),
                         !.adapters = left,
                         !.m_defaultAdapter = IF @ = adapter THEN Null ELSE @],
         emitted |-> <<Signal("adapterRemoved", adapter)>> \o
                     (IF left = <<>>
                      THEN <<Signal("defaultAdapterChanged", Null),
                             Signal("allAdaptersRemoved", Null)>>
                      ELSE <<>>)]

\* _k_defaultAdapterChanged: [m, emitted].
defaultAdapterChanged(m, path) ==
    [m |-> [m EXCEPT !.m_defaultAdapter = adapterAt(m, path)],
     emitted |-> <<Signal("defaultAdapterChanged", adapterAt(m, path))>>]

\* Manager::defaultAdapter / Manager::listAdapters
defaultAdapter(m) == m.m_defaultAdapter
listAdapters(m) == m.adapters

\* The daemon removes the object of the (disconnected) device; signals already
\* queued stay queued.
daemonRemove ==
    /\ bluez.known
    /\ ~bluez.Connected
    /\ changes < MaxChanges
    /\ bluez' = NoDevice
    /\ hist' = [hist EXCEPT !.removed = @ \/ d.m_bluezDeviceInterface # Null]
    /\ changes' = changes + 1
    /\ last' = Step("daemon", <<>>, <<>>, "void", 0)
    /\ UNCHANGED <<d, conn, pending, mgr, mlast>>

InitManager ==
    /\ mgr = [instance |-> Null, nextId |-> 1, objects |-> {}, adapters |-> <<>>,
              m_defaultAdapter |-> Null]
    /\ mlast = MStep("none", <<>>, Null, {})

ManagerSelf ==
    /\ mgr.instance = Null => mgr.nextId <= MaxObjects
    /\ mgr' = self(mgr).m
    /\ mlast' = MStep("self", <<>>, self(mgr).ret, {})
    /\ UNCHANGED dvars

ManagerRelease ==
    /\ mgr' = release(mgr)
    /\ mlast' = MStep("release", <<>>, Null,
                       {o.id : o \in mgr.objects} \ {o.id : o \in release(mgr).objects})
    /\ UNCHANGED dvars

ManagerAdapterAdded ==
    \E path \in AdapterPaths :
        /\ mgr.instance # Null
        /\ adapterAt(mgr, path) = Null
        /\ mgr.nextId <= MaxObjects
        /\ mgr' = adapterAdded(mgr, path).m
        /\ mlast' = MStep("_k_adapterAdded", adapterAdded(mgr, path).emitted, Null, {})
        /\ UNCHANGED dvars

ManagerAdapterRemoved ==
    \E path \in AdapterPaths :
        /\ mgr.instance # Null
        /\ adapterAt(mgr, path) # Null
        /\ mgr' = adapterRemoved(mgr, path).m
        /\ mlast' = MStep("_k_adapterRemoved", adapterRemoved(mgr, path).emitted, Null,
                           {o.id : o \in mgr.objects} \
                               {o.id : o \in adapterRemoved(mgr, path).m.objects})
        /\ UNCHANGED dvars

ManagerDefaultAdapterChanged ==
    \E path \in AdapterPaths :
        /\ mgr.instance # Null
        /\ adapterAt(mgr, path) # Null
        /\ mgr' = defaultAdapterChanged(mgr, path).m
        /\ mlast' = MStep("_k_defaultAdapterChanged",
                           defaultAdapterChanged(mgr, path).emitted, Null, {})
        /\ UNCHANGED dvars

\* An Adapter reports a remote device and constructs its Device.
AdapterDeviceFound ==
    \E i \in 1..Len(mgr.adapters) :
        /\ mgr.nextId <= MaxObjects
        /\ mgr' = Device(mgr, mgr.adapters[i])
        /\ mlast' = MStep("Device", <<>>, mgr.nextId, {})
        /\ UNCHANGED dvars

ManagerDefaultAdapter ==
    /\ mgr.instance # Null
    /\ mlast' = MStep("defaultAdapter", <<>>, defaultAdapter(mgr), {})
    /\ UNCHANGED <<mgr, d, conn, hist, bluez, pending, changes, last>>

ManagerListAdapters ==
    /\ mgr.instance # Null
    /\ mlast' = MStep("listAdapters", <<>>, listAdapters(mgr), {})
    /\ UNCHANGED <<mgr, d, conn, hist, bluez, pending, changes, last>>

NextManager ==
    \/ ManagerSelf
    \/ ManagerRelease
    \/ ManagerAdapterAdded
    \/ ManagerAdapterRemoved
    \/ ManagerDefaultAdapterChanged
    \/ AdapterDeviceFound
    \/ ManagerDefaultAdapter
    \/ ManagerListAdapters

Init == InitDevice /\ InitManager

Next ==
    \/ registerDevice
    \/ lazyGetter
    \/ plainGetter
    \/ setter
    \/ discoverServices
    \/ cancelDiscovery
    \/ disconnect
    \/ dispatchPropertyChanged
    \/ dispatchDisconnectRequested
    \/ daemonChange
    \/ daemonCreate
    \/ daemonRemove

Spec == Init /\ [][Next]_vars

SpecManager == Init /\ [][NextManager]_vars

\* ------------------------------------------------------------------ claims
\* Whether the step issued remote call m, and how often.
Issued(step, m) == \E i \in 1..Len(step.calls) : step.calls[i].method = m
Count(step, m) == Cardinality({i \in 1..Len(step.calls) : step.calls[i].method = m})
\* Whether the daemon answered a path to one of the step's calls.
GotPath(step) ==
    \E i \in 1..Len(step.calls) :
        /\ step.calls[i].method \in {"findDevice", "createDevice"}
        /\ step.calls[i].reply # EmptyPath
\* Both findDevice and createDevice were asked and answered the empty path.
Unobtainable(step) ==
    /\ Issued(step, "findDevice")
    /\ Issued(step, "createDevice")
    /\ ~GotPath(step)
\* Everything Device::Private caches, the interface pointer aside.
Cache(dd) ==
    <<dd.m_paired, dd.m_connected, dd.m_trusted, dd.m_blocked, dd.m_alias, dd.m_UUIDs,
      dd.m_propertiesFetched>>

\* C1: a lazy getter issues GetProperties exactly when the properties have not
\* been fetched yet and the interface exists or the daemon answers a path for
\* it; once fetched, no step issues GetProperties; at most one GetProperties
\* completes per Device.
C1_LazyFetch ==
    /\ [][last'.op \in LazyGetters =>
            (Issued(last', "GetProperties") <=>
                (/\ ~d.m_propertiesFetched
                 /\ (d.m_bluezDeviceInterface # Null \/ GotPath(last'))))]_vars
    /\ [][d.m_propertiesFetched => ~Issued(last', "GetProperties")]_vars
    /\ [](hist.getProperties <= 1)

\* C1 witness: a lazy getter called on a fetched Device, answered from the cache.
C1_Witness ==
    /\ last.op = "isTrusted"
    /\ last.calls = <<>>
    /\ d.m_propertiesFetched
    /\ hist.getProperties = 1

CacheField(property) ==
    CASE property = "Paired" -> "m_paired"
      [] property = "Connected" -> "m_connected"
      [] property = "Trusted" -> "m_trusted"
      [] property = "Blocked" -> "m_blocked"
      [] property = "Alias" -> "m_alias"
LocalSignal(property) ==
    CASE property = "Paired" -> "pairedChanged"
      [] property = "Connected" -> "connectedChanged"
      [] property = "Trusted" -> "trustedChanged"
      [] property = "Blocked" -> "blockedChanged"
      [] property = "Alias" -> "aliasChanged"
Watched == BoolProperties \cup {"Alias"}

\* C2: the dispatch of a PropertyChanged for Paired, Connected, Trusted, Blocked
\* or Alias takes the oldest queued notification, stores its value in the
\* matching cached field and emits exactly one matching signal carrying it,
\* whatever the field held before; for another property nothing is emitted and
\* the cache is left as it was.
C2_Reemission ==
    [][last'.op = "_k_propertyChanged" =>
         LET n == Head(pending) IN
         /\ pending' = Tail(pending)
         /\ n.property \in Watched =>
               /\ d' = [d EXCEPT ![CacheField(n.property)] = n.value.v]
               /\ Len(last'.emitted) = 1
               /\ last'.emitted[1].signal = LocalSignal(n.property)
               /\ last'.emitted[1].arg = n.value.v
         /\ n.property \notin Watched =>
               /\ d' = d
               /\ last'.emitted = <<>>]_vars

\* C2 witness: a Trusted notification was dispatched and re-emitted after a
\* fetch, the only daemon event so far.
C2_Witness ==
    /\ last.op = "_k_propertyChanged"
    /\ Len(last.emitted) = 1
    /\ last.emitted[1].signal = "trustedChanged"
    /\ last.emitted[1].arg = TRUE
    /\ d.m_trusted
    /\ d.m_propertiesFetched
    /\ changes = 1

\* Interface created, properties fetched, nothing queued.
Quiescent ==
    /\ d.m_bluezDeviceInterface # Null
    /\ d.m_propertiesFetched
    /\ pending = <<>>

C4_NoRetry ==
    /\ [][Unobtainable(last') =>
            /\ last'.op = "registerDevice" => last'.ret = FALSE
            /\ last'.op = "discoverServices" => last'.ret = EmptyMap
            /\ last'.op \in Setters => ~Issued(last', "SetProperty")
            /\ last'.op \in LazyGetters =>
                  /\ d' = d
                  /\ ~Issued(last', "GetProperties")
                  /\ last'.ret = getterValue(last'.op, d)]_vars
    /\ [](\A m \in {"findDevice", "createDevice", "GetProperties"} : Count(last, m) <= 1)
    /\ [](last.op \in {"_k_propertyChanged", "disconnectRequested", "daemon"} =>
            last.calls = <<>>)

\* C4 witness: registerDevice failed after both calls answered the empty path.
C4_Witness ==
    /\ last.op = "registerDevice"
    /\ Unobtainable(last)
    /\ last.ret = FALSE
    /\ d.m_bluezDeviceInterface = Null

\* C7: a setter leaves the cache and m_propertiesFetched as they were; the cache
\* changes only in the dispatch of a PropertyChanged or in a lazy getter that
\* issued GetProperties; a lazy getter on a fetched Device returns the cached
\* value and changes nothing.
C7_SettersForward ==
    /\ [][last'.op \in Setters => Cache(d') = Cache(d)]_vars
    /\ [][Cache(d') # Cache(d) =>
            \/ last'.op = "_k_propertyChanged"
            \/ last'.op \in LazyGetters /\ Issued(last', "GetProperties")]_vars
    /\ [][(last'.op \in LazyGetters /\ d.m_propertiesFetched) =>
            /\ d' = d
            /\ last'.ret = getterValue(last'.op, d)]_vars

\* C7 witness: setTrusted(true) reached the daemon of a fetched Device whose
\* cache still holds false, the notification not yet dispatched.
C7_Witness ==
    /\ last.op = "setTrusted"
    /\ Issued(last, "SetProperty")
    /\ d.m_propertiesFetched
    /\ bluez.Trusted
    /\ ~isTrusted(d)
    /\ pending # <<>>

\* C8: at most one interface is ever constructed, and once set the pointer keeps
\* its value; createDevice directly follows a findDevice that answered the
\* empty path; with the interface in place no step issues findDevice or
\* createDevice; each daemon signal has exactly one connection while the
\* interface exists, so a dispatch runs the slot once.
C8_SingleInterface ==
    /\ [](hist.created <= 1)
    /\ [](conn.PropertyChanged = (IF d.m_bluezDeviceInterface # Null THEN 1 ELSE 0))
    /\ [](conn.DisconnectRequested = (IF d.m_bluezDeviceInterface # Null THEN 1 ELSE 0))
    /\ [][d.m_bluezDeviceInterface # Null =>
            /\ d'.m_bluezDeviceInterface = d.m_bluezDeviceInterface
            /\ ~Issued(last', "findDevice")
            /\ ~Issued(last', "createDevice")]_vars
    /\ [](\A i \in 1..Len(last.calls) :
            last.calls[i].method = "createDevice" =>
                /\ i > 1
                /\ last.calls[i - 1].method = "findDevice"
                /\ last.calls[i - 1].reply = EmptyPath)
    /\ [](last.op \in {"_k_propertyChanged", "disconnectRequested"} =>
            /\ last.handled = 1
            /\ Len(last.emitted) <= 1)

\* C8 witness: a notification dispatched to the slot once, after a step that
\* found the interface in place and one that had to create the device.
C8_Witness ==
    /\ last.op = "_k_propertyChanged"
    /\ last.handled = 1
    /\ hist.created = 1
    /\ d.m_bluezDeviceInterface # Null
    /\ changes = 2

Emitted(step, s) == \E i \in 1..Len(step.emitted) : step.emitted[i].signal = s

\* C5: while an instance exists self() returns it and constructs nothing, and
\* only self() and release() change the instance; release() leaves no instance,
\* no Adapter and no Device alive; the self() after it returns an instance that
\* never existed before.
C5_Singleton ==
    /\ [][(mlast'.op = "self" /\ mgr.instance # Null) =>
            (mlast'.ret = mgr.instance /\ mgr' = mgr)]_vars
    /\ [][mgr'.instance # mgr.instance => mlast'.op \in {"self", "release"}]_vars
    /\ [][mlast'.op = "release" =>
            /\ mgr'.instance = Null
            /\ mgr'.objects = {}
            /\ mgr'.adapters = <<>>
            /\ mlast'.deleted = {o.id : o \in mgr.objects}]_vars
    /\ [][(mlast'.op = "self" /\ mgr.instance = Null) =>
            /\ mlast'.ret = mgr'.instance
            /\ mlast'.ret >= mgr.nextId]_vars

\* C5 witness: a release() that deleted the two objects the instance owned (an
\* Adapter and its Device, or two Adapters).
C5_Witness ==
    /\ mlast.op = "release"
    /\ Cardinality(mlast.deleted) = 2
    /\ mgr.nextId = 4
    /\ mgr.instance = Null
    /\ mgr.objects = {}

\* C6: the removal that empties the adapter list emits defaultAdapterChanged(0)
\* and allAdaptersRemoved; allAdaptersRemoved is emitted only with the list
\* empty; with the list empty the default adapter is NULL and defaultAdapter()
\* and listAdapters() answer NULL and the empty list; only _k_adapterAdded
\* makes the list non-empty again.
C6_AllAdaptersRemoved ==
    /\ [][(mlast'.op = "_k_adapterRemoved" /\ mgr'.adapters = <<>>) =>
            /\ \E i \in 1..Len(mlast'.emitted) :
                  /\ mlast'.emitted[i].signal = "defaultAdapterChanged"
                  /\ mlast'.emitted[i].arg = Null
            /\ Emitted(mlast', "allAdaptersRemoved")]_vars
    /\ [](Emitted(mlast, "allAdaptersRemoved") => mgr.adapters = <<>>)
    /\ [](mgr.adapters = <<>> => mgr.m_defaultAdapter = Null)
    /\ [](mlast.op = "defaultAdapter" /\ mgr.adapters = <<>> => mlast.ret = Null)
    /\ [](mlast.op = "listAdapters" => mlast.ret = mgr.adapters)
    /\ [][(mgr.adapters = <<>> /\ mgr'.adapters # <<>>) => mlast'.op = "_k_adapterAdded"]_vars

\* C6 witness: the second of two adapters was removed and allAdaptersRemoved
\* emitted.
C6_Witness ==
    /\ mlast.op = "_k_adapterRemoved"
    /\ Emitted(mlast, "allAdaptersRemoved")
    /\ mgr.adapters = <<>>
    /\ mgr.nextId = 4


====
